---- MODULE Spec2Model ----
(***************************************************************************)
(* Hyper Commerce API (src/main.py): the identity, catalog, cart and order *)
(* stores and the request handlers that touch them.  A request is a        *)
(* sequence of store accesses; every action below is one store access of   *)
(* one request together with the local computation that follows it, so     *)
(* requests of different clients interleave between store accesses.  The   *)
(* current_user dependency runs in one step with the handler's first store *)
(* access: a user document is never changed or deleted, so the lookup of a *)
(* user that exists gives the same result at either moment.  Timestamps    *)
(* (created_at, updated_at, order_number) are left out.                    *)
(*                                                                         *)
(* Money: a price is a number of eighths of a currency unit (every such    *)
(* value is exactly representable as a Python float, and so is every sum   *)
(* of price * quantity), a total is a number of hundredths.                *)
(***************************************************************************)
EXTENDS Integers, Sequences, FiniteSets, TLC

\* ------------------------------------------------------------------ bounds
MaxOid     == 6      \* ObjectIds the store hands out (3 of them before startup)
MaxCartQty == 2      \* cap on the quantity a cart row accumulates

\* Two clients: every race this module looks at is one between two requests.
Reqs == {1, 2}

\* --------------------------------------------------------------- ObjectIds
\* str(ObjectId): the 24 hex digit form of the n-th ObjectId.
OidHex ==
  << "000000000000000000000001", "000000000000000000000002",
     "000000000000000000000003", "000000000000000000000004",
     "000000000000000000000005", "000000000000000000000006",
     "000000000000000000000007", "000000000000000000000008",
     "000000000000000000000009", "00000000000000000000000a",
     "00000000000000000000000b", "00000000000000000000000c" >>

str(oid) == OidHex[oid]

\* bson.ObjectId.is_valid on a str: 24 hex digits.
IsValidOid(s) == \E n \in DOMAIN OidHex : OidHex[n] = s

\* bson.ObjectId(s), for a valid s.
ObjectId(s) == CHOOSE n \in DOMAIN OidHex : OidHex[n] = s

\* a str that is no ObjectId: ObjectId(MalformedId) raises InvalidId.
MalformedId == "not-an-object-id"

\* ------------------------------------------------------------------ inputs
Emails    == {"a@shop.io", "b@shop.io"}
Passwords == {"pw1", "pw2"}    \* what a login may try
RegisterPasswords == {"pw1"}   \* what a registration chooses
UserName  == "Ann"
Address   == "1 Main St"
PaymentMethod == "card"

\* hashlib.sha256(pw.encode()).hexdigest()
hash_password(pw) ==
  CASE pw = "pw1" -> "c592df4a86933b92addc9842402ddf198c638ea9be58916ee6e3734e1e3152f8"
    [] pw = "pw2" -> "93915a0a4bf8f634cb1856494dd4304472ad46b9827f541f76b6761c49cc55b0"

\* ----------------------------------------------------------------- catalog
ProductIds == {1, 2}
SeedPrice  == 18          \* 2.25, a price of the seed's range, in eighths
Prices     == {17, 18}    \* 2.125 and 2.25: what a catalog edit sets
EditedProducts == {1}     \* the product whose price is edited

SeedProduct(p) ==
  [ title    |-> IF p = 1 THEN "Grocery Item 1" ELSE "Food Item 1",
    price    |-> SeedPrice,
    image    |-> IF p = 1 THEN "https://picsum.photos/seed/grocery-1/400/300"
                          ELSE "https://picsum.photos/seed/food-1/400/300",
    vertical |-> IF p = 1 THEN "grocery" ELSE "food" ]

VARIABLES
  user,      \* db.user: set of user documents
  product,   \* db.product: ObjectId -> product document
  cart,      \* db.cart: sequence of cart rows, in the store's natural order
  order,     \* db.order: sequence of order documents, in insertion order
  nextOid,   \* the next ObjectId the store generates
  req,       \* per client: the request in flight and its handler's locals
  response   \* the response the last step produced, until it is sent

vars == <<user, product, cart, order, nextOid, req, response>>

\* -------------------------------------------------------- store primitives
\* db.user.find_one({"email": email}): [] or [doc]
UserFindByEmail(us, email) ==
  IF \E u \in us : u.email = email
    THEN << CHOOSE u \in us : u.email = email >>
    ELSE << >>

\* db.user.find_one({"_id": oid})
UserFindById(us, oid) ==
  IF \E u \in us : u._id = oid
    THEN << CHOOSE u \in us : u._id = oid >>
    ELSE << >>

\* the unique index on user.email (ensure_seed): insert_one raises
\* DuplicateKeyError when a document with the email exists.
DuplicateKey(us, doc) == \E u \in us : u.email = doc.email

\* db.cart.find({"user_id": uid}), in natural order
CartFind(c, uid) == SelectSeq(c, LAMBDA row : row.user_id = uid)

\* db.cart.find_one({"user_id": uid, "product_id": pid}): [] or [row]
CartFindOne(c, uid, pid) ==
  LET hits == SelectSeq(c, LAMBDA row : row.user_id = uid /\ row.product_id = pid)
  IN  IF hits = << >> THEN << >> ELSE << hits[1] >>

\* db.cart.update_one({"_id": id}, {"$inc": {"quantity": q}})
CartIncQuantity(c, id, q) ==
  [ i \in DOMAIN c |->
      IF c[i]._id = id THEN [ c[i] EXCEPT !.quantity = @ + q ] ELSE c[i] ]

\* db.cart.insert_one(row)
CartInsertOne(c, row) == Append(c, row)

\* a delete_one filter that leaves user_id out
DeleteOneMatchesAnyUser(row, id, uid) == row._id = id

\* the rows db.cart.delete_one({"_id": id, "user_id": uid}) matches
DeleteOneMatches(row, id, uid) == row._id = id /\ row.user_id = uid

\* db.cart.delete_one(filter): the store without the first matching row
CartDeleteOne(c, id, uid) ==
  LET hit == { i \in DOMAIN c : DeleteOneMatches(c[i], id, uid) }
  IN  IF hit = {} THEN c
      ELSE LET k == CHOOSE i \in hit : \A j \in hit : i <= j
           IN  SubSeq(c, 1, k - 1) \o SubSeq(c, k + 1, Len(c))

\* delete_one in place of delete_many: only the user's first row goes
CartDeleteFirst(c, uid) ==
  LET hit == { i \in DOMAIN c : c[i].user_id = uid }
  IN  IF hit = {} THEN c
      ELSE LET k == CHOOSE i \in hit : \A j \in hit : i <= j
           IN  SubSeq(c, 1, k - 1) \o SubSeq(c, k + 1, Len(c))

\* db.cart.delete_many({"user_id": uid})
CartDeleteMany(c, uid) == SelectSeq(c, LAMBDA row : row.user_id # uid)

\* a replace of the latest order in place of the insert
OrderReplaceLast(os, doc) ==
  IF os = << >> THEN << doc >> ELSE [ os EXCEPT ![Len(os)] = doc ]

\* db.order.insert_one(doc)
OrderInsertOne(os, doc) == Append(os, doc)

\* ------------------------------------------------------------ current_user
\* An Authorization header is the list of fields authorization.split(" ")
\* yields; NoHeader is the absent header (None), EmptyHeader the header "".
NoHeader    == << >>
EmptyHeader == << "" >>

\* str.lower() on the schemes the clients send
lower(s) ==
  CASE s \in {"Bearer", "BEARER", "bearer"} -> "bearer"
    [] s = "Basic" -> "basic"
    [] OTHER -> s

Unauthorized(detail) == [ status |-> 401, detail |-> detail, usr |-> << >> ]

\* The dependency every cart and order handler runs first.  status 200 with
\* the user (its _id popped into id), 401 for each HTTPException it raises,
\* 500 for the InvalidId that ObjectId(token) raises and nothing catches.
current_user(authorization, us) ==
  IF authorization = NoHeader \/ authorization = EmptyHeader
    THEN Unauthorized("Missing Authorization header")
  ELSE IF Len(authorization) # 2
    THEN Unauthorized("Invalid Authorization header")
  ELSE LET scheme == authorization[1]
           token  == authorization[2]
       IN  IF lower(scheme) # "bearer" \/ token = ""
             THEN Unauthorized("Invalid token")
           ELSE IF ~ IsValidOid(token)
             THEN [ status |-> 500, detail |-> "Internal Server Error", usr |-> << >> ]
           ELSE LET found == UserFindById(us, ObjectId(token))
                IN  IF found = << >>
                      THEN Unauthorized("Invalid user")
                      ELSE [ status |-> 200, detail |-> "",
                             usr |-> << [ id            |-> str(found[1]._id),
                                          name          |-> found[1].name,
                                          email         |-> found[1].email,
                                          password_hash |-> found[1].password_hash ] >> ]

\* The headers the clients send: absent, empty, one field, three fields, a
\* scheme that is not bearer, an empty token, a token that is no ObjectId,
\* and bearer tokens that are ObjectIds (of a product, of users or of nothing).
TokenOids == {1, 3, 4}
Headers ==
  { NoHeader, EmptyHeader, << "Bearer" >>,
    << "Bearer", str(3), "x" >>, << "Basic", str(3) >>,
    << "Bearer", "" >>, << "Bearer", MalformedId >>,
    << "bearer", str(3) >>, << "BEARER", str(3) >> }
  \cup { << "Bearer", str(n) >> : n \in TokenOids }

\* the headers of the two shoppers
ShopperHeaders == { << "Bearer", str(3) >>, << "Bearer", str(4) >> }

\* ---------------------------------------------------------------- requests
\* A client slot: the handler running (kind), its next store access (pc),
\* the inputs it still needs and its locals.
NoRequest ==
  [ kind |-> "none", pc |-> "none", email |-> "", password |-> "",
    product_id |-> "", quantity |-> 0,
    usr |-> << >>, prod |-> << >>, existing |-> << >>, items |-> << >>,
    order_id |-> 0, total |-> 0 ]

\* A response: the handler that answers, the Authorization header when the
\* request ended in the step it arrived in, the id of the user the request
\* ran as, the path's item id, the status and detail, and the body (id /
\* token, total, items).
NoResponse ==
  [ kind |-> "none", authorization |-> NoHeader, uid |-> "", item_id |-> "",
    status |-> 0, detail |-> "", id |-> "", total |-> 0, items |-> << >> ]

\* Client slots are interchangeable: a new request takes the lowest free one.
Free(r) ==
  /\ response = NoResponse
  /\ req[r].kind = "none"
  /\ \A q \in Reqs : q < r => req[q].kind # "none"

\* requests in flight that are still to create a document
Creating ==
  { r \in Reqs : req[r].pc \in { "register_insert", "add_existing", "add_write",
                                 "order_insert" } }

\* room for one more document-creating request within MaxOid
Room == nextOid + Cardinality(Creating) <= MaxOid

\* The database at startup: the seeded catalog and, the store outliving the
\* process, one user registered earlier.
FirstUser ==
  [ _id |-> 3, name |-> UserName, email |-> "a@shop.io",
    password_hash |-> hash_password("pw1") ]

Init ==
  /\ user = { FirstUser }
  /\ product = [ p \in ProductIds |-> SeedProduct(p) ]
  /\ cart = << >>
  /\ order = << >>
  /\ nextOid = 4
  /\ req = [ r \in Reqs |-> NoRequest ]
  /\ response = NoResponse

\* client r's request is at the store access pc, and no response is pending
At(r, pc) == response = NoResponse /\ req[r].pc = pc

\* the request ends: its response is ready and its locals are gone
Finish(r, resp) ==
  /\ req' = [ req EXCEPT ![r] = NoRequest ]
  /\ response' = resp

\* the request goes on to its next store access; nothing is sent
Continue(r, rq) ==
  /\ req' = [ req EXCEPT ![r] = rq ]
  /\ response' = NoResponse

\* The response of the last step goes out to its client.  A response is an
\* output only: no handler reads it, so sending it before any other step
\* loses no behaviour of the stores.
respond ==
  /\ response # NoResponse
  /\ response' = NoResponse
  /\ UNCHANGED <<user, product, cart, order, nextOid, req>>

\* the response to a request that current_user rejected
AuthFailure(kind, authorization, a) ==
  [ NoResponse EXCEPT !.kind = kind, !.authorization = authorization,
                      !.status = a.status, !.detail = a.detail ]

\* the response under construction for an authenticated request
ResponseTo(rq) == [ NoResponse EXCEPT !.kind = rq.kind, !.uid = rq.usr[1].id ]

\* ------------------------------------------------------------------- auth
\* POST /auth/register, line 165: the existence lookup
register_lookup(r, email, password) ==
  /\ Free(r) /\ Room
  /\ IF UserFindByEmail(user, email) # << >>
       THEN Finish(r, [ NoResponse EXCEPT !.kind = "register", !.status = 400,
                          !.detail = "Email already registered" ])
       ELSE Continue(r, [ NoRequest EXCEPT !.kind = "register",
                            !.pc = "register_insert",
                            !.email = email, !.password = password ])
  /\ UNCHANGED <<user, product, cart, order, nextOid>>

\* the user document register builds (lines 168-174)
NewUser(rq, oid) ==
  [ _id |-> oid, name |-> UserName, email |-> rq.email,
    password_hash |-> hash_password(rq.password) ]

\* POST /auth/register, line 175: insert_one under the unique email index;
\* the DuplicateKeyError is caught nowhere and surfaces as a 500.
register_insert(r) ==
  /\ At(r, "register_insert")
  /\ LET doc  == NewUser(req[r], nextOid)
         resp == [ NoResponse EXCEPT !.kind = "register" ]
     IN  IF DuplicateKey(user, doc)
           THEN /\ Finish(r, [ resp EXCEPT !.status = 500,
                                           !.detail = "Internal Server Error" ])
                /\ UNCHANGED <<user, nextOid>>
           ELSE /\ user' = user \cup { doc }
                /\ nextOid' = nextOid + 1
                /\ Finish(r, [ resp EXCEPT !.status = 200, !.id = str(doc._id),
                                           !.uid = str(doc._id) ])
  /\ UNCHANGED <<product, cart, order>>

\* POST /auth/login (lines 180-183)
login(r, email, password) ==
  /\ Free(r)
  /\ LET u    == UserFindByEmail(user, email)
         resp == [ NoResponse EXCEPT !.kind = "login" ]
     IN  IF u = << >> \/ u[1].password_hash # hash_password(password)
           THEN Finish(r, [ resp EXCEPT !.status = 401,
                                        !.detail = "Invalid credentials" ])
           ELSE Finish(r, [ resp EXCEPT !.status = 200, !.id = str(u[1]._id),
                                        !.uid = str(u[1]._id) ])
  /\ UNCHANGED <<user, product, cart, order, nextOid>>

\* -------------------------------------------------------------------- cart
ProductIdInputs == { str(1), str(2), str(3), MalformedId }
ItemIdInputs    == { str(4), str(5), MalformedId }
Quantities      == {0, 1, 2}

\* x["id"] = str(x.pop("_id")) on a cart row (lines 225-226)
Norm(row) ==
  [ id |-> str(row._id), user_id |-> row.user_id, product_id |-> row.product_id,
    title |-> row.title, price |-> row.price, image |-> row.image,
    quantity |-> row.quantity, vertical |-> row.vertical ]

\* GET /cart (lines 223-227)
get_cart(r, authorization) ==
  /\ Free(r)
  /\ LET a == current_user(authorization, user)
     IN  IF a.status # 200
           THEN Finish(r, AuthFailure("get_cart", authorization, a))
           ELSE LET items == CartFind(cart, a.usr[1].id)
                IN  Finish(r, [ NoResponse EXCEPT !.kind = "get_cart",
                                  !.authorization = authorization,
                                  !.uid = a.usr[1].id, !.status = 200,
                                  !.items = [ i \in DOMAIN items |-> Norm(items[i]) ] ])
  /\ UNCHANGED <<user, product, cart, order, nextOid>>

\* the quantity (user, product) holds in the cart or has on its way there
PendingQty(uid, pid) ==
  LET rows == { i \in DOMAIN cart :
                  cart[i].user_id = uid /\ cart[i].product_id = pid }
      adds == { r \in Reqs : /\ req[r].kind = "add_to_cart"
                             /\ req[r].usr[1].id = uid
                             /\ req[r].product_id = pid }
      RECURSIVE RowSum(_), AddSum(_)
      RowSum(S) == IF S = {} THEN 0
                   ELSE LET i == CHOOSE x \in S : TRUE
                        IN  cart[i].quantity + RowSum(S \ {i})
      AddSum(S) == IF S = {} THEN 0
                   ELSE LET x == CHOOSE y \in S : TRUE
                        IN  req[x].quantity + AddSum(S \ {x})
  IN  RowSum(rows) + AddSum(adds)

\* POST /cart: current_user, the payload's validation (quantity: int =
\* Field(ge=1)) and the product lookup of lines 232-234
add_to_cart_product(r, authorization, product_id, quantity) ==
  /\ Free(r) /\ Room
  /\ LET a    == current_user(authorization, user)
         resp == [ NoResponse EXCEPT !.kind = "add_to_cart", !.uid = a.usr[1].id ]
     IN  IF a.status # 200
           THEN Finish(r, AuthFailure("add_to_cart", authorization, a))
         ELSE IF quantity < 1
           THEN Finish(r, [ resp EXCEPT !.status = 422,
                                        !.detail = "Unprocessable Entity" ])
         ELSE IF ~ IsValidOid(product_id)
           THEN Finish(r, [ resp EXCEPT !.status = 500,
                                        !.detail = "Internal Server Error" ])
         ELSE IF ObjectId(product_id) \notin DOMAIN product
           THEN Finish(r, [ resp EXCEPT !.status = 404,
                                        !.detail = "Product not found" ])
         ELSE /\ PendingQty(a.usr[1].id, product_id) + quantity <= MaxCartQty
              /\ Continue(r, [ NoRequest EXCEPT !.kind = "add_to_cart",
                                 !.pc = "add_existing", !.usr = a.usr,
                                 !.product_id = product_id, !.quantity = quantity,
                                 !.prod = << product[ObjectId(product_id)] >> ])
  /\ UNCHANGED <<user, product, cart, order, nextOid>>

\* POST /cart, line 235: the lookup of the user's row for the product
add_to_cart_existing(r) ==
  /\ At(r, "add_existing")
  /\ Continue(r, [ req[r] EXCEPT !.pc = "add_write",
                     !.existing = CartFindOne(cart, req[r].usr[1].id,
                                              req[r].product_id) ])
  /\ UNCHANGED <<user, product, cart, order, nextOid>>

\* the cart row add_to_cart inserts (lines 240-250)
NewCartRow(rq, oid) ==
  [ _id |-> oid, user_id |-> rq.usr[1].id, product_id |-> rq.product_id,
    title |-> rq.prod[1].title, price |-> rq.prod[1].price,
    image |-> rq.prod[1].image, quantity |-> rq.quantity,
    vertical |-> rq.prod[1].vertical ]

\* POST /cart, lines 236-251: increment the row found, or insert a new one
add_to_cart_write(r) ==
  /\ At(r, "add_write")
  /\ IF req[r].existing # << >>
       THEN /\ cart' = CartIncQuantity(cart, req[r].existing[1]._id, req[r].quantity)
            /\ Finish(r, [ ResponseTo(req[r]) EXCEPT !.status = 200,
                             !.id = str(req[r].existing[1]._id) ])
            /\ UNCHANGED nextOid
       ELSE /\ cart' = CartInsertOne(cart, NewCartRow(req[r], nextOid))
            /\ nextOid' = nextOid + 1
            /\ Finish(r, [ ResponseTo(req[r]) EXCEPT !.status = 200,
                             !.id = str(nextOid) ])
  /\ UNCHANGED <<user, product, order>>

\* res.deleted_count of the delete_one (line 257)
deleted_count(c, id, uid) ==
  IF \E i \in DOMAIN c : DeleteOneMatches(c[i], id, uid) THEN 1 ELSE 0

\* DELETE /cart/{item_id} (lines 254-259); ObjectId(item_id) raises InvalidId
\* on a malformed id, which surfaces as a 500.
remove_cart_item(r, authorization, item_id) ==
  /\ Free(r)
  /\ LET a    == current_user(authorization, user)
         resp == [ NoResponse EXCEPT !.kind = "remove_cart_item",
                                     !.authorization = authorization,
                                     !.uid = a.usr[1].id, !.item_id = item_id ]
     IN  IF a.status # 200
           THEN /\ Finish(r, AuthFailure("remove_cart_item", authorization, a))
                /\ UNCHANGED cart
         ELSE IF ~ IsValidOid(item_id)
           THEN /\ Finish(r, [ resp EXCEPT !.status = 500,
                                           !.detail = "Internal Server Error" ])
                /\ UNCHANGED cart
         ELSE LET id  == ObjectId(item_id)
                  uid == a.usr[1].id
              IN  /\ cart' = CartDeleteOne(cart, id, uid)
                  /\ IF deleted_count(cart, id, uid) = 0
                       THEN Finish(r, [ resp EXCEPT !.status = 404,
                                                    !.detail = "Item not found" ])
                       ELSE Finish(r, [ resp EXCEPT !.status = 200 ])
  /\ UNCHANGED <<user, product, order, nextOid>>

\* ------------------------------------------------------------------ orders
\* place_order without the emptiness test
CartNeverEmpty(items) == FALSE

\* the emptiness test of line 267 (not items)
CartIsEmpty(items) == items = << >>

\* sum(i["price"] * i["quantity"] for i in items), in eighths (line 269)
RECURSIVE SumItems(_)
SumItems(items) ==
  IF items = << >> THEN 0
  ELSE items[1].price * items[1].quantity + SumItems(Tail(items))

\* truncation to hundredths in place of rounding
round2_truncated(eighths) == (25 * eighths) \div 2

\* round(total, 2) of a float holding eighths / 8, in hundredths: the value
\* is exact, and Python rounds an exact tie to the even hundredth.
round2(eighths) ==
  LET twice == 25 * eighths       \* the value in two-hundredths
      down  == twice \div 2
  IN  IF twice % 2 = 0 THEN down
      ELSE IF down % 2 = 0 THEN down ELSE down + 1

\* a line item that drops the row's quantity
LineItemUnitQuantity(i) ==
  [ product_id |-> i.product_id, title |-> i.title, price |-> i.price,
    image |-> i.image, quantity |-> 1, vertical |-> i.vertical ]

\* one line item of the order (lines 273-280)
LineItem(i) ==
  [ product_id |-> i.product_id, title |-> i.title, price |-> i.price,
    image |-> i.image, quantity |-> i.quantity, vertical |-> i.vertical ]

\* the order document place_order builds (lines 270-289)
NewOrder(rq, oid) ==
  [ _id |-> oid, user_id |-> rq.usr[1].id,
    items |-> [ k \in DOMAIN rq.items |-> LineItem(rq.items[k]) ],
    total |-> round2(SumItems(rq.items)),
    address |-> Address, payment_method |-> PaymentMethod, status |-> "placed" ]

\* POST /orders: current_user, then lines 266-268: read the cart, fail when
\* it is empty
place_order_find(r, authorization) ==
  /\ Free(r) /\ Room
  /\ LET a == current_user(authorization, user)
     IN  IF a.status # 200
           THEN Finish(r, AuthFailure("place_order", authorization, a))
           ELSE LET items == CartFind(cart, a.usr[1].id)
                IN  IF CartIsEmpty(items)
                      THEN Finish(r, [ NoResponse EXCEPT !.kind = "place_order",
                                         !.uid = a.usr[1].id, !.status = 400,
                                         !.detail = "Cart is empty" ])
                      ELSE Continue(r, [ NoRequest EXCEPT !.kind = "place_order",
                                           !.pc = "order_insert", !.usr = a.usr,
                                           !.items = items ])
  /\ UNCHANGED <<user, product, cart, order, nextOid>>

\* POST /orders, lines 269-290: build the order and insert it
place_order_insert(r) ==
  /\ At(r, "order_insert")
  /\ LET doc == NewOrder(req[r], nextOid)
     IN  /\ order' = OrderInsertOne(order, doc)
         /\ nextOid' = nextOid + 1
         /\ Continue(r, [ req[r] EXCEPT !.pc = "order_clear", !.order_id = doc._id,
                                        !.total = doc.total ])
  /\ UNCHANGED <<user, product, cart>>

\* POST /orders, lines 291-292: clear the cart and answer
place_order_clear(r) ==
  /\ At(r, "order_clear")
  /\ cart' = CartDeleteMany(cart, req[r].usr[1].id)
  /\ Finish(r, [ ResponseTo(req[r]) EXCEPT !.status = 200,
                   !.id = str(req[r].order_id), !.total = req[r].total ])
  /\ UNCHANGED <<user, product, order, nextOid>>

\* ----------------------------------------------------------------- catalog
\* The catalog store is written outside this program (spec section 6): an
\* edit of a product's price.
ChangePrice(p, v) ==
  /\ response = NoResponse
  /\ v # product[p].price
  /\ product' = [ product EXCEPT ![p].price = v ]
  /\ response' = NoResponse
  /\ UNCHANGED <<user, cart, order, nextOid, req>>

\* ------------------------------------------------------------ specification
\* Workload.  The outcome of a request that current_user or the validation
\* of its input rejects, and of a read-only request, depends on no request
\* in flight: the clients send those while nothing else is in flight, and
\* send well-formed cart and order requests at any time.
Quiet == \A r \in Reqs : req[r].kind = "none"

WellFormed(authorization) == Quiet \/ authorization \in ShopperHeaders

\* A client sends a request: the endpoint's handler starts in a free slot.
POST_auth_register(r) ==
  Free(r) /\ \E e \in Emails, pw \in RegisterPasswords : register_lookup(r, e, pw)

POST_auth_login(r) ==
  Free(r) /\ Quiet /\ \E e \in Emails, pw \in Passwords : login(r, e, pw)

GET_cart(r) ==
  Free(r) /\ Quiet /\ \E h \in Headers : get_cart(r, h)

POST_cart(r) ==
  Free(r) /\ \E h \in Headers, p \in ProductIdInputs, q \in Quantities :
    /\ WellFormed(h) /\ (Quiet \/ (q >= 1 /\ p \in { str(1), str(2) }))
    /\ add_to_cart_product(r, h, p, q)

DELETE_cart_item(r) ==
  Free(r) /\ \E h \in Headers, i \in ItemIdInputs :
    /\ WellFormed(h) /\ (Quiet \/ i # MalformedId)
    /\ remove_cart_item(r, h, i)

POST_orders(r) ==
  Free(r) /\ \E h \in Headers : WellFormed(h) /\ place_order_find(r, h)

CatalogEdit == \E p \in EditedProducts, v \in Prices : ChangePrice(p, v)

Next ==
  \/ \E r \in Reqs : POST_auth_register(r)
  \/ \E r \in Reqs : register_insert(r)
  \/ \E r \in Reqs : POST_auth_login(r)
  \/ \E r \in Reqs : GET_cart(r)
  \/ \E r \in Reqs : POST_cart(r)
  \/ \E r \in Reqs : add_to_cart_existing(r)
  \/ \E r \in Reqs : add_to_cart_write(r)
  \/ \E r \in Reqs : DELETE_cart_item(r)
  \/ \E r \in Reqs : POST_orders(r)
  \/ \E r \in Reqs : place_order_insert(r)
  \/ \E r \in Reqs : place_order_clear(r)
  \/ CatalogEdit
  \/ respond

Spec == Init /\ [][Next]_vars

\* ==================================================================== claims
AuthenticatedKinds == { "get_cart", "add_to_cart", "remove_cart_item", "place_order" }

\* the indices of the cart rows of user uid
RowsOf(c, uid) == { i \in DOMAIN c : c[i].user_id = uid }

\* the orders with the ObjectId whose str is id
OrdersWithId(id) == { i \in DOMAIN order : str(order[i]._id) = id }

\* the exact sum of price * quantity over line items, in eighths
RECURSIVE ExactEighths(_, _)
ExactEighths(lines, n) ==
  IF n = 0 THEN 0
  ELSE lines[n].price * lines[n].quantity + ExactEighths(lines, n - 1)

\* t hundredths is e eighths rounded to 2 decimal places: a nearest hundredth
\* (12.5 * e is at most half a hundredth away), the even one on a tie
IsRounded(t, e) ==
  /\ 2 * t - 25 * e \in {-1, 0, 1}
  /\ 2 * t # 25 * e => t % 2 = 0

\* line is the copy of cart row: the six fields place_order captures
IsCopy(line, row) ==
  /\ DOMAIN line = { "product_id", "title", "price", "image", "quantity", "vertical" }
  /\ line.product_id = row.product_id /\ line.title = row.title
  /\ line.price = row.price /\ line.image = row.image
  /\ line.quantity = row.quantity /\ line.vertical = row.vertical

\* client r reads the cart for a checkout in this step
ReadsCart(r)    == req[r].kind = "none" /\ req'[r].pc = "order_insert"
\* client r inserts its order in this step
InsertsOrder(r) == req[r].pc = "order_insert" /\ req'[r].pc = "order_clear"
\* client r clears the cart and answers in this step
ClearsCart(r)   == req[r].pc = "order_clear" /\ req'[r].kind = "none"

\* C1: a successful checkout inserts an Order whose line items are the copy
\* of exactly the cart rows the user had when the checkout read the cart, in
\* their order, whose total is the sum of price x quantity over those rows
\* rounded to 2 decimal places; the total returned is the total stored.
C1_OrderSnapshotsCart ==
  [][ \A r \in Reqs :
        /\ ReadsCart(r) =>
             req'[r].items =
               SelectSeq(cart, LAMBDA row : row.user_id = req'[r].usr[1].id)
        /\ InsertsOrder(r) =>
             /\ Len(order') = Len(order) + 1
             /\ LET o == order'[Len(order')]
                IN  /\ o.user_id = req[r].usr[1].id
                    /\ Len(o.items) = Len(req[r].items)
                    /\ \A k \in DOMAIN o.items : IsCopy(o.items[k], req[r].items[k])
                    /\ IsRounded(o.total, ExactEighths(req[r].items, Len(req[r].items)))
                    /\ IsRounded(o.total, ExactEighths(o.items, Len(o.items)))
        /\ ClearsCart(r) =>
             /\ response'.kind = "place_order" /\ response'.status = 200
             /\ \E i \in DOMAIN order :
                  /\ str(order[i]._id) = response'.id
                  /\ order[i].user_id = response'.uid
                  /\ order[i].total = response'.total
    ]_vars

\* a checkout has answered with a two-item order whose total was a tie
\* rounded up to the even hundredth
C1_Witness ==
  /\ response.kind = "place_order" /\ response.status = 200
  /\ \E i \in OrdersWithId(response.id) :
       /\ Len(order[i].items) = 2
       /\ response.total = order[i].total
       /\ 2 * order[i].total = 25 * ExactEighths(order[i].items, 2) + 1

\* C2: when a checkout completes successfully, the cart store holds no row
\* of its user, whatever ran between its cart read, insert and clear.
C2_CartEmptyAtCompletion ==
  (response.kind = "place_order" /\ response.status = 200)
    => RowsOf(cart, response.uid) = {}

\* a checkout completes while an add_to_cart of the same user, which found
\* the row the checkout has just cleared, is still to write
C2_Witness ==
  /\ response.kind = "place_order" /\ response.status = 200
  /\ RowsOf(cart, response.uid) = {}
  /\ \E r \in Reqs :
       /\ req[r].kind = "add_to_cart" /\ req[r].pc = "add_write"
       /\ req[r].usr[1].id = response.uid
       /\ req[r].existing # << >>

\* C3: a checkout by a user whose cart has no rows fails with 400 'Cart is
\* empty' and changes no store; a checkout goes on to insert an order only
\* when the cart it read has rows.
C3_EmptyCartCheckoutFails ==
  [][ /\ \A r \in Reqs :
           ReadsCart(r) => RowsOf(cart, req'[r].usr[1].id) # {}
      /\ (response = NoResponse /\ response'.kind = "place_order"
            /\ response'.uid # "" /\ req' = req)
           => /\ RowsOf(cart, response'.uid) = {}
              /\ response'.status = 400 /\ response'.detail = "Cart is empty"
              /\ response'.id = "" /\ response'.total = 0
              /\ UNCHANGED <<user, product, cart, order, nextOid>>
    ]_vars

\* a checkout of an empty cart has failed while another user's cart has rows
C3_Witness ==
  /\ response.kind = "place_order" /\ response.status = 400
  /\ response.detail = "Cart is empty"
  /\ cart # << >>

\* C4: in every reachable state the cart store holds at most one row per
\* (user, product).
C4_OneRowPerUserProduct ==
  \A i, j \in DOMAIN cart :
    (cart[i].user_id = cart[j].user_id /\ cart[i].product_id = cart[j].product_id)
      => i = j

C6_SecondRegisterConflicts ==
  /\ \A u, v \in user : u.email = v.email => u = v
  /\ (response.kind = "register" /\ response.status # 200)
       => (response.status = 400 /\ response.detail = "Email already registered")

\* the header resolves to user u: two fields, a bearer scheme, u's id
Resolves(authorization, u) ==
  /\ Len(authorization) = 2
  /\ lower(authorization[1]) = "bearer"
  /\ authorization[2] = str(u._id)

\* C7: a request whose Authorization header resolves to no existing user is
\* answered 401 with no data; one whose header resolves to a user runs as
\* exactly that user.
C7_AuthGate ==
  (/\ response.kind \in AuthenticatedKinds
   /\ (response.authorization # NoHeader \/ response.uid = ""))
    => IF \E u \in user : Resolves(response.authorization, u)
         THEN \E u \in user : /\ Resolves(response.authorization, u)
                              /\ response.uid = str(u._id)
         ELSE /\ response.status = 401
              /\ response.uid = "" /\ response.id = ""
              /\ response.total = 0 /\ response.items = << >>

\* C8: the order store is append-only: a step changes no order that exists
\* and deletes none; it adds an order exactly when a checkout inserts one,
\* and then one; a checkout that fails adds none, one that succeeds has
\* added exactly one order, of its own id.
C8_OrdersAppendOnly ==
  [][ /\ Len(order') >= Len(order)
      /\ \A i \in DOMAIN order : order'[i] = order[i]
      /\ Len(order') # Len(order) =>
           /\ Len(order') = Len(order) + 1
           /\ \E r \in Reqs : InsertsOrder(r)
      /\ (\E r \in Reqs : InsertsOrder(r)) => Len(order') = Len(order) + 1
      /\ (response'.kind = "place_order" /\ response'.status # 200) => order' = order
      /\ \A r \in Reqs : ClearsCart(r) =>
           Cardinality({ i \in DOMAIN order' : str(order'[i]._id) = response'.id }) = 1
    ]_vars

\* an order lists product 1 at a price the catalog no longer has, and the
\* cart the order was placed from is gone
C8_Witness ==
  /\ order # << >>
  /\ \E k \in DOMAIN order[1].items :
       /\ order[1].items[k].product_id = str(1)
       /\ order[1].items[k].price # product[1].price
  /\ cart = << >>
  /\ Len(order) = 2

\* two checkouts of one user have both read the same cart rows and both
\* inserted an order, neither has cleared yet
BothInserted(r1, r2) ==
  /\ r1 # r2
  /\ req[r1].pc = "order_clear" /\ req[r2].pc = "order_clear"
  /\ req[r1].usr = req[r2].usr
  /\ req[r1].items = req[r2].items

\* C9: two concurrent checkouts of one user that read the same non-empty
\* cart both insert an Order: the store then holds two Orders of that user,
\* with identical line items (the rows read) and the same total.
C9_DuplicateOrders ==
  \A r1, r2 \in Reqs : BothInserted(r1, r2) =>
    \E i, j \in DOMAIN order :
      /\ i # j
      /\ order[i]._id = req[r1].order_id /\ order[j]._id = req[r2].order_id
      /\ order[i].user_id = req[r1].usr[1].id /\ order[j].user_id = req[r1].usr[1].id
      /\ order[i].items = order[j].items /\ order[i].total = order[j].total
      /\ Len(order[i].items) = Len(req[r1].items)
      /\ \A k \in DOMAIN order[i].items : IsCopy(order[i].items[k], req[r1].items[k])

\* both have inserted, the cart still holds exactly the rows they read (one
\* row, created by the only add there was), and the user's orders are two
C9_Witness ==
  \E r1, r2 \in Reqs :
    /\ BothInserted(r1, r2)
    /\ cart = req[r1].items /\ Len(cart) = 1
    /\ Len(order) = 2
    /\ order[1].items = order[2].items /\ order[1].total = order[2].total
    /\ order[1].user_id = order[2].user_id
    /\ nextOid = 7

\* C10: every cart row a checkout's clear deletes is, with its product and
\* quantity, a line item of the Order that checkout inserted.
C10_NoQuantityLost ==
  [][ \A r \in Reqs : ClearsCart(r) =>
           \A i \in RowsOf(cart, req[r].usr[1].id) :
             \E o \in DOMAIN order : /\ order[o]._id = req[r].order_id
                                     /\ \E k \in DOMAIN order[o].items :
                                          /\ order[o].items[k].product_id = cart[i].product_id
                                          /\ order[o].items[k].quantity = cart[i].quantity
    ]_vars

====
